---- MODULE Spec2Model ----
(***************************************************************************)
(* Model of the parroton-bot client layer:                                 *)
(*   - the message builders of TonJettonTonStrategy and Vault              *)
(*     (src/src/core/contracts/TonJettonTonStrategy.ts), with the cell     *)
(*     builder of @ton/core modelled at the bit level;                     *)
(*   - the orchestrator vaultExtraRewardsDistribution                      *)
(*     (src/src/vault-extra-rewards-distribution.ts).                      *)
(* Three specifications share the variables: SpecMsg (one builder call),   *)
(* SpecRewards (one computation of the Reward Distribution Map) and Spec   *)
(* (one invocation of the orchestrator).                                   *)
(***************************************************************************)
EXTENDS Integers, Sequences, FiniteSets

VARIABLES
    \* ---- message builders (SpecMsg)
    builder,        \* the builder that was called, "none" before the call
    opts,           \* its options record
    body,           \* the cell it handed to provider.internal (err # "none": it threw)
    \* ---- reward map (SpecRewards)
    rwBudget,       \* period budget B given to prepareExtraRewards
    rwHolders,      \* share balances of the holders, a sequence
    rwMap,          \* the Reward Distribution Map
    rwDone,         \* whether rwMap has been computed
    \* ---- orchestrator (Spec)
    pc,             \* position in vaultExtraRewardsDistribution
    vault,          \* index of the vault the for loop is at, 0 before the loop
    distributionPoolData, \* what getPoolExtraData returned for this vault
    rewardsDictionary,    \* the map computed in the current wait callback
    computed,       \* per vault: "none" | "empty" | "nonempty" (its computed map)
    txs,            \* the governor's submissions, in submission order
    waitTx,         \* index in txs of what the current wait's callback submitted, 0: nothing
    attempts,       \* polls the current wait call has used
    waited,         \* per vault, the steps whose wait call returned
    failed          \* <<vault, step>> of the step that rejected the invocation

msgVars == <<builder, opts, body>>

rwVars == <<rwBudget, rwHolders, rwMap, rwDone>>

orchVars == <<pc, vault, distributionPoolData, rewardsDictionary, computed, txs,
              waitTx, attempts, waited, failed>>

vars == <<msgVars, rwVars, orchVars>>

(***************************************************************************)
(* Numbers.  A non-negative integer (a JS number or bigint) is its binary  *)
(* expansion, most significant bit first, without leading zeros: <<>> is 0.*)
(* Opcodes and 120-bit amounts do not fit 32-bit machine integers.         *)
(***************************************************************************)
RECURSIVE NatBits(_)
NatBits(n) == IF n = 0 THEN <<>> ELSE Append(NatBits(n \div 2), n % 2)

HexDigitBits(d) == <<(d \div 8) % 2, (d \div 4) % 2, (d \div 2) % 2, d % 2>>

RECURSIVE HexBits(_)
HexBits(ds) == IF ds = <<>> THEN <<>> ELSE HexDigitBits(Head(ds)) \o HexBits(Tail(ds))

RECURSIVE Strip(_)
Strip(bs) == IF bs # <<>> /\ Head(bs) = 0 THEN Strip(Tail(bs)) ELSE bs

Hex(ds) == Strip(HexBits(ds))

Zeros(n) == [i \in 1..n |-> 0]

Ones(n) == [i \in 1..n |-> 1]

(***************************************************************************)
(* Cell builder of @ton/core as the builders use it.  A builder is         *)
(* [bits, refs, err]; an exception is err # "none", and it propagates      *)
(* through the rest of the call chain.                                     *)
(***************************************************************************)
MaxCellBits == 1023

MaxCellRefs == 4

beginCell == [bits |-> <<>>, refs |-> <<>>, err |-> "none"]

Throw(b, e) == [b EXCEPT !.err = e]

\* BitBuilder.writeUint: the range check comes first, then the buffer's limit
storeUint(b, value, bits) ==
    IF b.err # "none" THEN b
    ELSE IF Len(value) > bits THEN Throw(b, "RangeError")
    ELSE IF Len(b.bits) + bits > MaxCellBits THEN Throw(b, "overflow")
    ELSE [b EXCEPT !.bits = @ \o Zeros(bits - Len(value)) \o value]

storeBit(b, bit) ==
    IF b.err # "none" THEN b
    ELSE IF Len(b.bits) + 1 > MaxCellBits THEN Throw(b, "overflow")
    ELSE [b EXCEPT !.bits = Append(@, bit)]

\* ceil(bitLength / 8)
SizeBytes(value) == (Len(value) + 7) \div 8

\* BitBuilder.writeVarUint(value, 4): 4-bit byte count, then that many bytes
storeCoins(b, value) ==
    IF value = <<>> THEN storeUint(b, <<>>, 4)
    ELSE storeUint(storeUint(b, NatBits(SizeBytes(value)), 4), value, 8 * SizeBytes(value))

\* An address is [workChain, hash]; workChain is 0 or -1 (written as int8)
WorkChainBits(wc) == IF wc = 0 THEN Zeros(8) ELSE Ones(8)

\* addr_std: tag 10, no anycast, int8 workchain, 256-bit hash
storeAddress(b, address) ==
    LET tagged == storeUint(storeUint(b, NatBits(2), 2), <<>>, 1)
        wc == IF tagged.err # "none" THEN tagged
              ELSE IF Len(tagged.bits) + 8 > MaxCellBits THEN Throw(tagged, "overflow")
              ELSE [tagged EXCEPT !.bits = @ \o WorkChainBits(address.workChain)]
    IN  storeUint(wc, address.hash, 256)

storeRef(b, cell) ==
    IF b.err # "none" THEN b
    ELSE IF cell.err # "none" THEN Throw(b, cell.err)
    ELSE IF Len(b.refs) + 1 > MaxCellRefs THEN Throw(b, "overflow")
    ELSE [b EXCEPT !.refs = Append(@, cell)]

endCell(b) == b

\* Slice.loadUint at a bit offset: the number held by bits from+1 .. from+n
loadUint(cell, from, n) == Strip(SubSeq(cell.bits, from + 1, from + n))

HasBits(cell, n) == cell.err = "none" /\ Len(cell.bits) >= n

(***************************************************************************)
(* Opcodes, as hexadecimal digits.                                         *)
(***************************************************************************)
Opcodes_set_deposit_lp_wallet_address == Hex(<<7, 7, 1, 9, 11, 8, 4, 15>>)

Opcodes_set_jetton_wallet_address == Hex(<<2, 8, 8, 11, 5, 2, 2, 3>>)

Opcodes_reinvest == Hex(<<8, 1, 2, 13, 4, 14, 3>>)

OPS_deposit == Hex(<<9, 5, 13, 11, 9, 13, 3, 9>>)

OPS_reinvest == Hex(<<8, 1, 2, 13, 4, 14, 3>>)

OPS_withdraw_management_fee == Hex(<<14, 15, 9, 14, 9, 1, 7, 11>>)

OPS_set_strategy_address == Hex(<<10, 3, 13, 7, 6, 1, 1, 15>>)

OPS_set_management_fee_rate == Hex(<<12, 2, 5, 15, 15, 10, 5, 15>>)

OPS_set_is_locked == Hex(<<14, 2, 12, 13, 14, 0, 8, 4>>)

OPS_transfer_notification == Hex(<<7, 3, 6, 2, 13, 0, 9, 12>>)

\* opts.queryId ?? 0, an absent queryId being <<>> and a given one <<q>>
QueryIdOrDefault_One(queryId) == IF queryId = <<>> THEN NatBits(1) ELSE queryId[1]

QueryIdOrDefault(queryId) == IF queryId = <<>> THEN <<>> ELSE queryId[1]

(***************************************************************************)
(* TonJettonTonStrategy                                                    *)
(***************************************************************************)
TonJettonTonStrategy_sendDeploy(o) == endCell(beginCell)

TonJettonTonStrategy_reinvestChild(o) ==
    endCell(
      storeCoins(
        storeCoins(
          storeUint(
            storeCoins(
              storeCoins(
                storeUint(
                  storeUint(beginCell, Opcodes_reinvest, 32),
                  QueryIdOrDefault(o.queryId), 64),
                o.amountToSwap),
              o.limit),
            o.deadline, 32),
          o.tonTargetBalance),
        o.jettonTargetBalance))

TonJettonTonStrategy_sendReinvest(o) ==
    endCell(storeRef(storeCoins(beginCell, o.totalReward),
                     TonJettonTonStrategy_reinvestChild(o)))

TonJettonTonStrategy_sendSetJettonWalletAddress(o) ==
    endCell(
      storeAddress(
        storeUint(
          storeUint(beginCell, Opcodes_set_jetton_wallet_address, 32),
          QueryIdOrDefault(o.queryId), 64),
        o.walletAddress))

TonJettonTonStrategy_sendSetDepositLpWalletAddress(o) ==
    endCell(
      storeAddress(
        storeUint(
          storeUint(beginCell, Opcodes_set_deposit_lp_wallet_address, 32),
          QueryIdOrDefault(o.queryId), 64),
        o.walletAddress))

(***************************************************************************)
(* Vault                                                                   *)
(***************************************************************************)
Vault_sendDeploy(o) == endCell(beginCell)

prepareDepositPayload == endCell(storeUint(beginCell, OPS_deposit, 32))

Vault_sendDepositNotification(o) ==
    endCell(
      storeRef(
        storeBit(
          storeAddress(
            storeCoins(
              storeUint(
                storeUint(beginCell, OPS_transfer_notification, 32),
                QueryIdOrDefault(o.queryId), 64),
              o.jettonAmount),
            o.fromAddress),
          1),
        prepareDepositPayload))

\* totalReward stored in the child cell as well: an eighth coins field
Vault_reinvestChildBuilder_ExtraField(o) ==
    storeCoins(
      storeCoins(
        storeCoins(
          storeCoins(
            storeCoins(
              storeCoins(
                storeUint(
                  storeCoins(
                    storeCoins(beginCell, o.amountToSwap),
                    o.limit),
                  o.deadline, 32),
                o.tonTargetBalance),
              o.jettonTargetBalance),
            o.depositFee),
          o.depositFwdFee),
        o.transferFee),
      o.totalReward)

\* the child cell's builder before endCell
Vault_reinvestChildBuilder(o) ==
    storeCoins(
      storeCoins(
        storeCoins(
          storeCoins(
            storeCoins(
              storeUint(
                storeCoins(
                  storeCoins(beginCell, o.amountToSwap),
                  o.limit),
                o.deadline, 32),
              o.tonTargetBalance),
            o.jettonTargetBalance),
          o.depositFee),
        o.depositFwdFee),
      o.transferFee)

Vault_reinvestChild(o) == endCell(Vault_reinvestChildBuilder(o))

Vault_sendReinvest(o) ==
    endCell(
      storeRef(
        storeCoins(
          storeUint(
            storeUint(beginCell, OPS_reinvest, 32),
            QueryIdOrDefault(o.queryId), 64),
          o.totalReward),
        Vault_reinvestChild(o)))

Vault_sendSetStrategyAddress(o) ==
    endCell(
      storeAddress(
        storeUint(
          storeUint(beginCell, OPS_set_strategy_address, 32),
          QueryIdOrDefault(o.queryId), 64),
        o.strategyAddress))

Vault_sendWithdrawManagementFee(o) ==
    endCell(
      storeCoins(
        storeAddress(
          storeUint(
            storeUint(beginCell, OPS_withdraw_management_fee, 32),
            QueryIdOrDefault(o.queryId), 64),
          o.receiver),
        o.amount))

Vault_sendSetIsLocked(o) ==
    endCell(
      storeUint(
        storeUint(
          storeUint(beginCell, OPS_set_is_locked, 32),
          QueryIdOrDefault(o.queryId), 64),
        o.isLocked, 1))

\* the opcode of another setter, as a copied builder would keep it
Vault_sendSetManagementFeeRate_WrongOpcode(o) ==
    endCell(
      storeUint(
        storeUint(
          storeUint(beginCell, OPS_set_is_locked, 32),
          QueryIdOrDefault(o.queryId), 64),
        o.managementFeeRate, 16))

Vault_sendSetManagementFeeRate(o) ==
    endCell(
      storeUint(
        storeUint(
          storeUint(beginCell, OPS_set_management_fee_rate, 32),
          QueryIdOrDefault(o.queryId), 64),
        o.managementFeeRate, 16))

(***************************************************************************)
(* SpecMsg: one call of one message builder, with its options drawn from   *)
(* small sets that hold the ends of every field's domain.                  *)
(***************************************************************************)
MaxQueryId == 1

\* an absent queryId is <<>>, a given one <<q>>: small ones, 2^64 - 1, and 2^64
TwoTo64 == <<1>> \o Zeros(64)

AllQueryIds ==
    {<<>>} \cup {<<NatBits(q)>> : q \in 0..MaxQueryId} \cup {<<Ones(64)>>, <<TwoTo64>>}

\* coins of 0, 1 and 15 bytes
Amounts == {<<>>, NatBits(1), Ones(120)}

\* and one that needs 16 bytes, which the 4-bit length cannot hold
AnyAmounts == Amounts \cup {Ones(121)}

Deadlines == {<<>>, Ones(32)}

Addresses == {[workChain |-> 0, hash |-> NatBits(1)], [workChain |-> -1, hash |-> Ones(256)]}

Values == {NatBits(5)}

NotCalled == builder = "none"

Called(name, o, cell) ==
    /\ builder' = name
    /\ opts' = o
    /\ body' = cell
    /\ UNCHANGED <<rwVars, orchVars>>

Strategy_SendDeploy ==
    /\ NotCalled
    /\ \E v \in Values :
        LET o == [value |-> v, queryId |-> <<>>]
        IN  Called("TonJettonTonStrategy.sendDeploy", o, TonJettonTonStrategy_sendDeploy(o))

Strategy_SendReinvest ==
    /\ NotCalled
    /\ \E v \in Values, q \in AllQueryIds, tr \in AnyAmounts, a \in Amounts, l \in Amounts,
       t \in Amounts, j \in Amounts, d \in Deadlines :
        LET o == [value |-> v, queryId |-> q, totalReward |-> tr, amountToSwap |-> a,
                  limit |-> l, tonTargetBalance |-> t, jettonTargetBalance |-> j,
                  deadline |-> d]
        IN  Called("TonJettonTonStrategy.sendReinvest", o, TonJettonTonStrategy_sendReinvest(o))

Strategy_SendSetJettonWalletAddress ==
    /\ NotCalled
    /\ \E v \in Values, q \in AllQueryIds, w \in Addresses :
        LET o == [value |-> v, queryId |-> q, walletAddress |-> w]
        IN  Called("TonJettonTonStrategy.sendSetJettonWalletAddress", o,
                   TonJettonTonStrategy_sendSetJettonWalletAddress(o))

Strategy_SendSetDepositLpWalletAddress ==
    /\ NotCalled
    /\ \E v \in Values, q \in AllQueryIds, w \in Addresses :
        LET o == [value |-> v, queryId |-> q, walletAddress |-> w]
        IN  Called("TonJettonTonStrategy.sendSetDepositLpWalletAddress", o,
                   TonJettonTonStrategy_sendSetDepositLpWalletAddress(o))

Vault_SendDeploy ==
    /\ NotCalled
    /\ \E v \in Values :
        LET o == [value |-> v, queryId |-> <<>>]
        IN  Called("Vault.sendDeploy", o, Vault_sendDeploy(o))

Vault_SendDepositNotification ==
    /\ NotCalled
    /\ \E v \in Values, q \in AllQueryIds, j \in AnyAmounts, f \in Addresses :
        LET o == [value |-> v, queryId |-> q, jettonAmount |-> j, fromAddress |-> f]
        IN  Called("Vault.sendDepositNotification", o, Vault_sendDepositNotification(o))

Vault_SendReinvest ==
    /\ NotCalled
    /\ \E v \in Values, q \in AllQueryIds, tr \in Amounts, a \in Amounts, l \in Amounts,
       t \in Amounts, j \in Amounts, df \in Amounts, dw \in Amounts, tf \in Amounts,
       d \in Deadlines :
        LET o == [value |-> v, queryId |-> q, totalReward |-> tr, amountToSwap |-> a,
                  limit |-> l, tonTargetBalance |-> t, jettonTargetBalance |-> j,
                  depositFee |-> df, depositFwdFee |-> dw, transferFee |-> tf,
                  deadline |-> d]
        IN  Called("Vault.sendReinvest", o, Vault_sendReinvest(o))

Vault_SendSetStrategyAddress ==
    /\ NotCalled
    /\ \E v \in Values, q \in AllQueryIds, s \in Addresses :
        LET o == [value |-> v, queryId |-> q, strategyAddress |-> s]
        IN  Called("Vault.sendSetStrategyAddress", o, Vault_sendSetStrategyAddress(o))

Vault_SendWithdrawManagementFee ==
    /\ NotCalled
    /\ \E v \in Values, q \in AllQueryIds, r \in Addresses, a \in AnyAmounts :
        LET o == [value |-> v, queryId |-> q, receiver |-> r, amount |-> a]
        IN  Called("Vault.sendWithdrawManagementFee", o, Vault_sendWithdrawManagementFee(o))

Vault_SendSetIsLocked ==
    /\ NotCalled
    /\ \E v \in Values, q \in AllQueryIds, k \in 0..2 :
        LET o == [value |-> v, queryId |-> q, isLocked |-> NatBits(k)]
        IN  Called("Vault.sendSetIsLocked", o, Vault_sendSetIsLocked(o))

Vault_SendSetManagementFeeRate ==
    /\ NotCalled
    /\ \E v \in Values, q \in AllQueryIds, r \in {<<>>, NatBits(100), Ones(16), Ones(17)} :
        LET o == [value |-> v, queryId |-> q, managementFeeRate |-> r]
        IN  Called("Vault.sendSetManagementFeeRate", o, Vault_sendSetManagementFeeRate(o))

MsgIdle ==
    /\ builder = "none"
    /\ opts = [value |-> <<>>, queryId |-> <<>>]
    /\ body = beginCell

RwIdle ==
    /\ rwBudget = 0
    /\ rwHolders = <<>>
    /\ rwMap = <<>>
    /\ rwDone = FALSE

OrchIdle ==
    /\ pc = "idle"
    /\ vault = 0
    /\ distributionPoolData = <<>>
    /\ rewardsDictionary = <<>>
    /\ computed = <<>>
    /\ txs = <<>>
    /\ waitTx = 0
    /\ attempts = 0
    /\ waited = <<>>
    /\ failed = {}

InitMsg == MsgIdle /\ RwIdle /\ OrchIdle

NextMsg ==
    \/ Strategy_SendDeploy
    \/ Strategy_SendReinvest
    \/ Strategy_SendSetJettonWalletAddress
    \/ Strategy_SendSetDepositLpWalletAddress
    \/ Vault_SendDeploy
    \/ Vault_SendDepositNotification
    \/ Vault_SendReinvest
    \/ Vault_SendSetStrategyAddress
    \/ Vault_SendWithdrawManagementFee
    \/ Vault_SendSetIsLocked
    \/ Vault_SendSetManagementFeeRate

SpecMsg == InitMsg /\ [][NextMsg]_vars

(***************************************************************************)
(* The Reward Distribution Map.  prepareExtraRewards is imported from      *)
(* core/functions/distribute-dedust-distribution-rewards: each holder gets *)
(* floor(budget * balance / total), and a holder whose reward is 0 is left *)
(* out of the map.  A holder holds at least one share.                     *)
(***************************************************************************)
MaxHolders == 3

MaxBalance == 3

MaxBudget == 10

RECURSIVE SumSeq(_)
SumSeq(q) == IF q = <<>> THEN 0 ELSE Head(q) + SumSeq(Tail(q))

HolderSets == UNION {[1..n -> 1..MaxBalance] : n \in 0..MaxHolders}

HolderReward_RoundUp(holders, budget, h) ==
    (budget * holders[h] + SumSeq(holders) - 1) \div SumSeq(holders)

HolderReward(holders, budget, h) == (budget * holders[h]) \div SumSeq(holders)

prepareExtraRewards(holders, budget) ==
    [h \in {k \in 1..Len(holders) : HolderReward(holders, budget, k) > 0}
        |-> HolderReward(holders, budget, h)]

RECURSIVE SumOver(_, _)
SumOver(f, S) ==
    IF S = {} THEN 0
    ELSE LET x == CHOOSE y \in S : TRUE IN f[x] + SumOver(f, S \ {x})

\* the sum of the rewards a map allocates
DictTotal(dict) == SumOver(dict, DOMAIN dict)

\* Dictionary.size
Size(dict) == Cardinality(DOMAIN dict)

\* toNano(0.1)
RewardPerPeriod == 100000000

\* toNano(0.05)
Fee == 50000000

Budgets == (0..MaxBudget) \cup {RewardPerPeriod}

InitRewards ==
    /\ MsgIdle
    /\ OrchIdle
    /\ rwBudget \in Budgets
    /\ rwHolders \in HolderSets
    /\ rwMap = <<>>
    /\ rwDone = FALSE

PrepareExtraRewards ==
    /\ ~rwDone
    /\ rwMap' = prepareExtraRewards(rwHolders, rwBudget)
    /\ rwDone' = TRUE
    /\ UNCHANGED <<rwBudget, rwHolders, msgVars, orchVars>>

NextRewards == PrepareExtraRewards

SpecRewards == InitRewards /\ [][NextRewards]_vars

(***************************************************************************)
(* vaultExtraRewardsDistribution.                                          *)
(*                                                                         *)
(* wait(key, callback) is imported from ./wait: it calls the callback      *)
(* once, then polls until the submission is seen confirmed and returns its *)
(* hash, or gives up when its retry budget is used and rejects.  A         *)
(* callback that throws rejects the wait call.                             *)
(***************************************************************************)
NumVaults == 2

MaxRetries == 2

Vaults == 1..NumVaults

TokenWallet(v) == <<"tokenWallet", v>>

Pool(v) == <<"extraDistributionPool", v>>

InitOrch ==
    /\ MsgIdle
    /\ RwIdle
    /\ pc = "start"
    /\ vault = 0
    /\ distributionPoolData = <<>>
    /\ rewardsDictionary = <<>>
    /\ computed = [v \in Vaults |-> "none"]
    /\ txs = <<>>
    /\ waitTx = 0
    /\ attempts = 0
    /\ waited = [v \in Vaults |-> {}]
    /\ failed = {}

\* No try/catch anywhere in the function: a rejected await rejects the invocation
OnFailure_SkipToFunding(step) == IF step = "dist" THEN "fund_cb" ELSE "rejected"

OnFailure_NextVault(step) == "loop"

OnFailure_RetryVault(step) == IF step = "fund" THEN "read" ELSE "rejected"

OnFailure(step) == "rejected"

Reject(step) ==
    /\ pc' = OnFailure(step)
    /\ failed' = failed \cup {<<vault, step>>}

\* await vaultGovernorWalletPromise
GovernorWallet ==
    /\ pc = "start"
    /\ pc' = "loop"
    /\ UNCHANGED <<vault, distributionPoolData, rewardsDictionary, computed, txs,
                   waitTx, attempts, waited, failed, msgVars, rwVars>>

GovernorWalletFails ==
    /\ pc = "start"
    /\ Reject("wallet")
    /\ UNCHANGED <<vault, distributionPoolData, rewardsDictionary, computed, txs,
                   waitTx, attempts, waited, msgVars, rwVars>>

\* the second wait is awaited before the loop goes on
AtLoopHead_NoAwait == pc \in {"loop", "fund_wait"}

AtLoopHead == pc = "loop"

\* for (const vaultData of Object.values(addresses.vaults))
LoopNext ==
    /\ AtLoopHead
    /\ vault < NumVaults
    /\ vault' = vault + 1
    /\ pc' = "read"
    /\ UNCHANGED <<distributionPoolData, rewardsDictionary, computed, txs,
                   waitTx, attempts, waited, failed, msgVars, rwVars>>

LoopEnd ==
    /\ AtLoopHead
    /\ vault = NumVaults
    /\ pc' = "done"
    /\ UNCHANGED <<vault, distributionPoolData, rewardsDictionary, computed, txs,
                   waitTx, attempts, waited, failed, msgVars, rwVars>>

\* await distributionPool.getPoolExtraData(); then wait(address, ...) starts
GetPoolExtraData ==
    /\ pc = "read"
    /\ distributionPoolData' = [tokenWalletAddress |-> TokenWallet(vault)]
    /\ pc' = "dist_prepare"
    /\ attempts' = 0
    /\ waitTx' = 0
    /\ UNCHANGED <<vault, rewardsDictionary, computed, txs, waited, failed,
                   msgVars, rwVars>>

GetPoolExtraDataFails ==
    /\ pc = "read"
    /\ Reject("read")
    /\ UNCHANGED <<vault, distributionPoolData, rewardsDictionary, computed, txs,
                   waitTx, attempts, waited, msgVars, rwVars>>

\* first callback: const rewardsDictionary = await prepareExtraRewards(...)
DistPrepare ==
    /\ pc = "dist_prepare"
    /\ \E holders \in HolderSets :
        /\ rewardsDictionary' = prepareExtraRewards(holders, RewardPerPeriod)
        /\ computed' = [computed EXCEPT ![vault] =
                          IF Size(rewardsDictionary') > 0 THEN "nonempty" ELSE "empty"]
    /\ pc' = "dist_send"
    /\ UNCHANGED <<vault, distributionPoolData, txs, waitTx, attempts, waited,
                   failed, msgVars, rwVars>>

DistPrepareFails ==
    /\ pc = "dist_prepare"
    /\ Reject("dist")
    /\ UNCHANGED <<vault, distributionPoolData, rewardsDictionary, computed, txs,
                   waitTx, attempts, waited, msgVars, rwVars>>

Submission(kind, to, amount) ==
    [vault |-> vault, kind |-> kind, to |-> to, amount |-> amount, status |-> "pending"]

\* if (rewardsDictionary.size > 0) await distributeRewards(governor, ...)
ShouldDistribute(dict) == Size(dict) > 0

DistSend ==
    /\ pc = "dist_send"
    /\ ShouldDistribute(rewardsDictionary)
    /\ txs' = Append(txs, Submission("distribute", Pool(vault),
                                     DictTotal(rewardsDictionary)))
    /\ waitTx' = Len(txs) + 1
    /\ rewardsDictionary' = <<>>
    /\ pc' = "dist_wait"
    /\ UNCHANGED <<vault, distributionPoolData, computed, attempts, waited, failed,
                   msgVars, rwVars>>

DistSendFails ==
    /\ pc = "dist_send"
    /\ ShouldDistribute(rewardsDictionary)
    /\ rewardsDictionary' = <<>>
    /\ Reject("dist")
    /\ UNCHANGED <<vault, distributionPoolData, computed, txs, waitTx, attempts,
                   waited, msgVars, rwVars>>

DistSkip ==
    /\ pc = "dist_send"
    /\ ~ShouldDistribute(rewardsDictionary)
    /\ rewardsDictionary' = <<>>
    /\ pc' = "dist_wait"
    /\ UNCHANGED <<vault, distributionPoolData, computed, txs, waitTx, attempts,
                   waited, failed, msgVars, rwVars>>

\* What a poll of the wait primitive sees: the callback's submission confirmed
Seen == waitTx # 0 /\ txs[waitTx].status = "confirmed"

\* A callback that submitted nothing leaves the poll nothing of its own to see:
\* the wait call may return (on the account's last transaction) or run out
MayReturn == Seen \/ waitTx = 0

Waiting == pc \in {"dist_wait", "fund_wait"}

WaitPoll ==
    /\ Waiting
    /\ ~Seen
    /\ attempts < MaxRetries
    /\ attempts' = attempts + 1
    /\ UNCHANGED <<pc, vault, distributionPoolData, rewardsDictionary, computed, txs,
                   waitTx, waited, failed, msgVars, rwVars>>

WaitExhausted ==
    /\ Waiting
    /\ ~Seen
    /\ attempts = MaxRetries
    /\ Reject(IF pc = "dist_wait" THEN "dist" ELSE "fund")
    /\ UNCHANGED <<vault, distributionPoolData, rewardsDictionary, computed, txs,
                   waitTx, attempts, waited, msgVars, rwVars>>

\* const { hash } = await wait(...) returns; console.log; the second wait starts
DistWaitReturn ==
    /\ pc = "dist_wait"
    /\ MayReturn
    /\ waited' = [waited EXCEPT ![vault] = @ \cup {"dist"}]
    /\ pc' = "fund_cb"
    /\ attempts' = 0
    /\ waitTx' = 0
    /\ UNCHANGED <<vault, distributionPoolData, rewardsDictionary, computed, txs,
                   failed, msgVars, rwVars>>

\* the first wait is awaited before the second is called
AtFunding_NoAwait == pc \in {"fund_cb", "dist_wait"}

AtFunding == pc = "fund_cb"

\* second callback: governor.send({to: tokenWalletAddress, value: rewardPerPeriod + fee})
FundSend ==
    /\ AtFunding
    /\ txs' = Append(txs, Submission("fund", distributionPoolData.tokenWalletAddress,
                                     RewardPerPeriod + Fee))
    /\ waitTx' = Len(txs) + 1
    /\ attempts' = 0
    /\ pc' = "fund_wait"
    /\ UNCHANGED <<vault, distributionPoolData, rewardsDictionary, computed, waited,
                   failed, msgVars, rwVars>>

FundSendFails ==
    /\ AtFunding
    /\ Reject("fund_send")
    /\ UNCHANGED <<vault, distributionPoolData, rewardsDictionary, computed, txs,
                   waitTx, attempts, waited, msgVars, rwVars>>

\* const { hash: sendHash } = await wait(...) returns; console.log; next iteration
FundWaitReturn ==
    /\ pc = "fund_wait"
    /\ MayReturn
    /\ waited' = [waited EXCEPT ![vault] = @ \cup {"fund"}]
    /\ pc' = "loop"
    /\ UNCHANGED <<vault, distributionPoolData, rewardsDictionary, computed, txs,
                   waitTx, attempts, failed, msgVars, rwVars>>

\* The ledger: a pending submission is included, or is rejected on chain
ChainConfirm ==
    \E k \in 1..Len(txs) :
        /\ txs[k].status = "pending"
        /\ txs' = [txs EXCEPT ![k].status = "confirmed"]
        /\ UNCHANGED <<pc, vault, distributionPoolData, rewardsDictionary, computed,
                       waitTx, attempts, waited, failed, msgVars, rwVars>>

ChainReject ==
    \E k \in 1..Len(txs) :
        /\ txs[k].status = "pending"
        /\ txs' = [txs EXCEPT ![k].status = "failed"]
        /\ UNCHANGED <<pc, vault, distributionPoolData, rewardsDictionary, computed,
                       waitTx, attempts, waited, failed, msgVars, rwVars>>

Init == InitOrch

Next ==
    \/ GovernorWallet
    \/ GovernorWalletFails
    \/ LoopNext
    \/ LoopEnd
    \/ GetPoolExtraData
    \/ GetPoolExtraDataFails
    \/ DistPrepare
    \/ DistPrepareFails
    \/ DistSend
    \/ DistSendFails
    \/ DistSkip
    \/ WaitPoll
    \/ WaitExhausted
    \/ DistWaitReturn
    \/ FundSend
    \/ FundSendFails
    \/ FundWaitReturn
    \/ ChainConfirm
    \/ ChainReject

Spec == Init /\ [][Next]_vars

(***************************************************************************)
(*                              The claims                                 *)
(***************************************************************************)

\* The documented opcode table (0x7362d09c ... as hexadecimal digits)
OpcodeTable ==
    [transfer_notification |-> Hex(<<7, 3, 6, 2, 13, 0, 9, 12>>),
     internal_transfer |-> Hex(<<1, 7, 8, 13, 4, 5, 1, 9>>),
     excesses |-> Hex(<<13, 5, 3, 2, 7, 6, 13, 11>>),
     transfer |-> Hex(<<15, 8, 10, 7, 14, 10, 5>>),
     deposit |-> Hex(<<9, 5, 13, 11, 9, 13, 3, 9>>),
     withdraw |-> Hex(<<11, 5, 13, 14, 5, 15, 9, 14>>),
     init |-> Hex(<<12, 6, 7, 4, 14, 4, 7, 4>>),
     reinvest |-> Hex(<<8, 1, 2, 13, 4, 14, 3>>),
     complete_reinvest |-> Hex(<<9, 7, 3, 2, 8, 0, 15, 5>>),
     withdraw_management_fee |-> Hex(<<14, 15, 9, 14, 9, 1, 7, 11>>),
     set_strategy_address |-> Hex(<<10, 3, 13, 7, 6, 1, 1, 15>>),
     set_management_fee_rate |-> Hex(<<12, 2, 5, 15, 15, 10, 5, 15>>),
     set_is_locked |-> Hex(<<14, 2, 12, 13, 14, 0, 8, 4>>),
     burn_notification |-> Hex(<<7, 11, 13, 13, 9, 7, 13, 14>>),
     transfer_bounce_invalid_request |-> Hex(<<1, 9, 7, 2, 7, 14, 10, 8>>),
     set_deposit_lp_wallet_address |-> Hex(<<7, 7, 1, 9, 11, 8, 4, 15>>),
     set_jetton_wallet_address |-> Hex(<<2, 8, 8, 11, 5, 2, 2, 3>>)]

\* The documented opcode of each builder's operation; deploy has none
DocumentedOpcode(name) ==
    CASE name = "TonJettonTonStrategy.sendReinvest" -> OpcodeTable.reinvest
      [] name = "TonJettonTonStrategy.sendSetJettonWalletAddress" ->
             OpcodeTable.set_jetton_wallet_address
      [] name = "TonJettonTonStrategy.sendSetDepositLpWalletAddress" ->
             OpcodeTable.set_deposit_lp_wallet_address
      [] name = "Vault.sendDepositNotification" -> OpcodeTable.transfer_notification
      [] name = "Vault.sendReinvest" -> OpcodeTable.reinvest
      [] name = "Vault.sendSetStrategyAddress" -> OpcodeTable.set_strategy_address
      [] name = "Vault.sendWithdrawManagementFee" -> OpcodeTable.withdraw_management_fee
      [] name = "Vault.sendSetIsLocked" -> OpcodeTable.set_is_locked
      [] name = "Vault.sendSetManagementFeeRate" -> OpcodeTable.set_management_fee_rate
      [] OTHER -> <<>>

DeployBuilders == {"TonJettonTonStrategy.sendDeploy", "Vault.sendDeploy"}

\* the builder was called and built its message without throwing
Built == builder # "none" /\ body.err = "none"

StartsWith(cell, opcode) == HasBits(cell, 32) /\ loadUint(cell, 0, 32) = opcode

\* the query id the caller asked for: the given one, 0 when it gave none
AskedQueryId == IF opts.queryId = <<>> THEN <<>> ELSE opts.queryId[1]

\* the 64 bits after a 32-bit opcode
HasQueryField(cell, opcode) ==
    /\ HasBits(cell, 96)
    /\ StartsWith(cell, opcode)
    /\ loadUint(cell, 32, 64) = AskedQueryId

\* C6 as stated: the top-level cell of every builder's body starts with the
\* 32 bits of its operation's documented opcode (of any documented opcode, for
\* deploy).  Violated by sendDeploy and by TonJettonTonStrategy.sendReinvest.
C6_EveryBodyStartsWithOpcode ==
    Built =>
        /\ HasBits(body, 32)
        /\ IF builder \in DeployBuilders
           THEN \E op \in DOMAIN OpcodeTable : loadUint(body, 0, 32) = OpcodeTable[op]
           ELSE loadUint(body, 0, 32) = DocumentedOpcode(builder)

\* C6 amended: every builder but three starts its body with its documented
\* opcode; the two sendDeploy build an empty body (no bits, no refs), and
\* TonJettonTonStrategy.sendReinvest starts its top-level cell with the
\* totalReward coins, its opcode being the first 32 bits of its only child cell.
C6_OpcodeFirstExceptDeployAndStrategyReinvest ==
    Built =>
        CASE builder \in DeployBuilders -> body.bits = <<>> /\ body.refs = <<>>
          [] builder = "TonJettonTonStrategy.sendReinvest" ->
                 /\ ~StartsWith(body, OpcodeTable.reinvest)
                 /\ Len(body.refs) = 1
                 /\ StartsWith(body.refs[1], OpcodeTable.reinvest)
          [] OTHER -> StartsWith(body, DocumentedOpcode(builder))

C6_Witness ==
    /\ Built
    /\ builder = "Vault.sendSetManagementFeeRate"
    /\ loadUint(body, 0, 32) = OpcodeTable.set_management_fee_rate

\* C7 as stated, read generously: the body of every builder holds, in its
\* top-level cell or in a child cell, the opcode followed by a 64-bit field
\* that decodes to the given queryId, or to 0 when none was given.  Violated
\* by sendDeploy, whose body has no field at all.
C7_EveryBodyHasQueryId ==
    Built =>
        \E cell \in {body} \cup {body.refs[k] : k \in 1..Len(body.refs)} :
            IF builder \in DeployBuilders
            THEN HasBits(cell, 96) /\ loadUint(cell, 32, 64) = AskedQueryId
            ELSE HasQueryField(cell, DocumentedOpcode(builder))

\* C7 amended: for every builder but sendDeploy the 64 bits after the opcode
\* decode to the given queryId, or to 0 when none was given: in the top-level
\* cell, and for TonJettonTonStrategy.sendReinvest in the child cell that holds
\* its opcode.  sendDeploy takes no queryId and builds an empty body.
C7_QueryIdAfterOpcodeExceptDeploy ==
    Built =>
        CASE builder \in DeployBuilders -> body.bits = <<>> /\ body.refs = <<>>
          [] builder = "TonJettonTonStrategy.sendReinvest" ->
                 /\ Len(body.refs) = 1
                 /\ HasQueryField(body.refs[1], OpcodeTable.reinvest)
          [] OTHER -> HasQueryField(body, DocumentedOpcode(builder))

C7_Witness ==
    /\ Built
    /\ builder = "Vault.sendSetManagementFeeRate"
    /\ opts.queryId = <<>>
    /\ loadUint(body, 32, 64) = <<>>

\* a coins field takes 4 + 8 * len bits, len the byte length of the amount
CoinsBits(amount) == 4 + 8 * ((Len(amount) + 7) \div 8)

ValidCoins(amount) == Len(amount) <= 120

VaultChildCoins ==
    <<opts.amountToSwap, opts.limit, opts.tonTargetBalance, opts.jettonTargetBalance,
      opts.depositFee, opts.depositFwdFee, opts.transferFee>>

StrategyChildCoins ==
    <<opts.amountToSwap, opts.limit, opts.tonTargetBalance, opts.jettonTargetBalance>>

\* every option of the reinvest call is in its field's domain
ValidReinvest(coins) ==
    /\ \A k \in 1..Len(coins) : ValidCoins(coins[k])
    /\ ValidCoins(opts.totalReward)
    /\ Len(opts.deadline) <= 32
    /\ Len(AskedQueryId) <= 64

\* C10: for every input in the fields' domains the reinvest child cell is built
\* and holds exactly its fields, within 1023 bits (7 coins and the deadline for
\* Vault.sendReinvest; opcode, query id, 4 coins and the deadline for
\* TonJettonTonStrategy.sendReinvest); and when the Vault's seven coins fields
\* have the full width of 124 bits (900 bits in all), storing one more coins
\* field of that width in the child cell is refused.
C10_ReinvestChildFits ==
    /\ (builder = "Vault.sendReinvest" /\ ValidReinvest(VaultChildCoins)) =>
           /\ Built
           /\ Len(body.refs) = 1
           /\ Len(body.refs[1].bits) =
                  32 + SumSeq([k \in 1..7 |-> CoinsBits(VaultChildCoins[k])])
           /\ Len(body.refs[1].bits) <= 1023
           /\ (\A k \in 1..7 : CoinsBits(VaultChildCoins[k]) = 124) =>
                  /\ Len(body.refs[1].bits) = 900
                  /\ storeCoins(body.refs[1], Ones(120)).err = "overflow"
    /\ (builder = "TonJettonTonStrategy.sendReinvest" /\ ValidReinvest(StrategyChildCoins)) =>
           /\ Built
           /\ Len(body.refs) = 1
           /\ Len(body.refs[1].bits) =
                  128 + SumSeq([k \in 1..4 |-> CoinsBits(StrategyChildCoins[k])])
           /\ Len(body.refs[1].bits) <= 1023

C10_Witness ==
    /\ Built
    /\ builder = "Vault.sendReinvest"
    /\ \A k \in 1..7 : VaultChildCoins[k] = Ones(120)
    /\ Len(body.refs[1].bits) = 900

\* ---- the Reward Distribution Map (SpecRewards)

\* what the map allocates to holder h: its entry, nothing when it has none
Allocated(h) == IF h \in DOMAIN rwMap THEN rwMap[h] ELSE 0

AllocatedTotal == SumSeq([h \in 1..Len(rwHolders) |-> Allocated(h)])

\* C8: for a non-empty set of holders and budget B every holder is allocated
\* floor(B * balance / total): a * total <= B * balance < (a + 1) * total; the
\* allocations sum to at most B, and B minus the sum is less than the number
\* of holders (nothing of the remainder is handed out).
C8_FloorAllocation ==
    (rwDone /\ rwHolders # <<>>) =>
        LET total == SumSeq(rwHolders)
        IN  /\ \A h \in 1..Len(rwHolders) :
                  /\ Allocated(h) * total <= rwBudget * rwHolders[h]
                  /\ rwBudget * rwHolders[h] < (Allocated(h) + 1) * total
            /\ AllocatedTotal <= rwBudget
            /\ rwBudget - AllocatedTotal < Len(rwHolders)

\* three holders of one share each and a budget of 10: 3 each, 1 left over
C8_Witness ==
    /\ rwDone
    /\ rwHolders = <<1, 1, 1>>
    /\ rwBudget = 10
    /\ rwMap = <<3, 3, 3>>
    /\ AllocatedTotal = 9

\* ---- the orchestrator (Spec)

TxsOf(v, kind) == {k \in 1..Len(txs) : txs[k].vault = v /\ txs[k].kind = kind}

Pending == {k \in 1..Len(txs) : txs[k].status = "pending"}

\* C1: a vault's funding transfer is submitted only after its distribution
\* step is over: that wait call has returned, and the distribution submission,
\* if there is one, came earlier and is confirmed.
C1_DistributionBeforeFunding ==
    \A v \in Vaults : \A k \in TxsOf(v, "fund") :
        /\ "dist" \in waited[v]
        /\ \A j \in TxsOf(v, "distribute") : j < k /\ txs[j].status = "confirmed"

C1_Witness ==
    \E v \in Vaults : \E k \in TxsOf(v, "fund") : \E j \in TxsOf(v, "distribute") :
        j < k /\ txs[j].status = "confirmed" /\ txs[k].status = "pending"

\* the funding transfer of vault v: the budget plus the fee, to its pool's wallet
Funded(v) ==
    \E k \in TxsOf(v, "fund") :
        txs[k].to = TokenWallet(v) /\ txs[k].amount = 100000000 + 50000000

\* C2: when the invocation is over, a vault whose map was computed empty has
\* no distribution submission and has had its funding transfer (made, or at
\* least called and refused by the provider).  Violated: the test of the map's
\* size is inside the callback of the first wait call, which is still made for
\* an empty map, has no submission of its own to see confirmed, and rejects
\* when its polls run out.
C2_EmptyMapAlwaysFunded ==
    \A v \in Vaults :
        (pc \in {"done", "rejected"} /\ computed[v] = "empty") =>
            /\ TxsOf(v, "distribute") = {}
            /\ Funded(v) \/ <<v, "fund_send">> \in failed

\* What does hold for an empty map: no distribution submission is ever made for
\* the vault, and the funding step follows once the first wait call returned.
EmptyMapFundedOnceWaitReturns ==
    \A v \in Vaults :
        computed[v] = "empty" =>
            /\ TxsOf(v, "distribute") = {}
            /\ ("dist" \in waited[v] /\ ~(vault = v /\ pc = "fund_cb")) =>
                   Funded(v) \/ <<v, "fund_send">> \in failed

\* C3: each vault has at most one distribution submission and at most one
\* funding transfer, whatever number of polls the wait calls needed.
C3_AtMostOncePerVault ==
    \A v \in Vaults :
        /\ Cardinality(TxsOf(v, "distribute")) <= 1
        /\ Cardinality(TxsOf(v, "fund")) <= 1

\* the invocation is over, the last wait call polled more than once, and every
\* vault has exactly one submission of each step
C3_Witness ==
    /\ pc = "done"
    /\ attempts > 0
    /\ \A v \in Vaults :
        Cardinality(TxsOf(v, "distribute")) = 1 /\ Cardinality(TxsOf(v, "fund")) = 1

C5_LaterVaultsStillProcessed ==
    \A f \in failed :
        pc \in {"done", "rejected"} => \A w \in Vaults : w > f[1] => vault >= w

\* C5 amended: a failed step of vault i rejects the invocation there: the loop
\* stays at vault i and no later vault is read, computed or submitted for.
C5_FailureRejectsInvocation ==
    \A f \in failed :
        /\ pc = "rejected"
        /\ vault = f[1]
        /\ \A k \in 1..Len(txs) : txs[k].vault <= f[1]
        /\ \A w \in Vaults : w > f[1] => computed[w] = "none" /\ waited[w] = {}

C5_Witness ==
    /\ pc = "rejected"
    /\ \E f \in failed : f[1] >= 1 /\ f[1] < NumVaults /\ f[2] = "dist"

\* C9: when the distribution step of a vault has failed (its callback threw or
\* its wait call ran out of polls), that vault has no funding submission.
C9_NoFundingAfterFailedDistribution ==
    \A v \in Vaults : <<v, "dist">> \in failed => TxsOf(v, "fund") = {}

\* a distribution was submitted, never seen confirmed, and the wait call gave up
C9_Witness ==
    \E v \in Vaults :
        /\ <<v, "dist">> \in failed
        /\ TxsOf(v, "distribute") # {}
        /\ attempts = MaxRetries
        /\ pc = "rejected"

====
